---- MODULE Spec2Model ----
(***************************************************************************)
(* Model of the deep-research agent.                                       *)
(*                                                                         *)
(*   research_agent.py : run_research, the five-stage pipeline             *)
(*                       (classify, discover, plan, parallel deep dives,   *)
(*                       synthesize) and run_worker / fetch_page_content.  *)
(*   app.py            : chat_with_status and _run_agent_with_events, the  *)
(*                       thread + queue bridge between the agent's event   *)
(*                       stream and the polling UI generator.              *)
(*                                                                         *)
(* The LLM, the search provider and the page fetcher are external: every   *)
(* call draws its reply from a small set of sample replies.                *)
(***************************************************************************)
EXTENDS Integers, Sequences, FiniteSets, TLC

VARIABLES
    stage,             \* position of run_research in its body
    classification,    \* <<>> until the classifier returned, then <<c>>
    discovery_reply,   \* <<>> until the provider answered the discovery search
    discovery_results, \* <<>> until the discovery search returned, then <<hits>>
    planner_prompt,    \* <<>> until the planner was called, then <<prompt>>
    plan,              \* plan.angles, <<>> until the planner returned
    tasks,             \* the run_worker coroutines, in creation order
    gathered,          \* asyncio.gather(*tasks) has been called
    completed,         \* indices of the finished workers, in completion order
    section_results,   \* what gather returned
    synthesis_input,   \* <<>> until built, then <<text>>
    progress,          \* the items run_research has yielded, in order
    errors,            \* the exceptions that reached run_research's caller
    calls,             \* how often each external collaborator has been called
    \* app.py
    ui_pc,             \* position of chat_with_status
    message,           \* the submitted message, a tuple of characters
    thread_pc,         \* the thread running _run_agent_with_events
    pending,           \* <<item>> while the thread is inside status_queue.put(item)
    events_seen,       \* events the agent's stream has delivered so far
    search_count,
    status_queue,
    status_lines,
    final_result,      \* <<>> for None, else <<payload>>
    shown,             \* what chat_with_status yielded last
    history,           \* the history argument of chat_with_status
    state,             \* the gr.State value submit_wrapper's yields store
    stream,            \* the events the agent's stream has delivered, in order
    put_log,           \* the items status_queue.put has accepted, in order
    subs               \* the runs of submit_wrapper of one session

pipeVars == <<stage, classification, discovery_reply, discovery_results,
              planner_prompt, plan, tasks, gathered, completed, section_results,
              synthesis_input, progress, errors, calls>>

bridgeVars == <<ui_pc, message, thread_pc, pending, events_seen, search_count,
                status_queue, status_lines, final_result, shown, history, state,
                stream, put_log, subs>>

vars == <<pipeVars, bridgeVars>>

-----------------------------------------------------------------------------
(* Program constants *)

MinAngles == 3
MaxAngles == 4

-----------------------------------------------------------------------------
(* Sample replies of the external collaborators *)

NoClassification == [input_type |-> "", resolved_name |-> "", context |-> ""]

ClassifierReplies ==
    { [ok |-> TRUE,
       out |-> [input_type |-> "ticker", resolved_name |-> "NVIDIA",
                context |-> "semiconductors"]],
      [ok |-> FALSE, out |-> NoClassification] }

ProviderReplies ==
    { [ok |-> TRUE,  hits |-> <<>>],
      [ok |-> TRUE,  hits |-> <<"u1", "u2">>],
      [ok |-> FALSE, hits |-> <<>>] }

PlannerReplies ==
    { [ok |-> TRUE,  angles |-> <<"SWOT", "Financials">>],
      [ok |-> TRUE,  angles |-> <<"SWOT", "Financials", "Competitors">>],
      [ok |-> TRUE,  angles |-> <<"SWOT", "Financials", "SWOT">>],
      [ok |-> TRUE,  angles |-> <<"SWOT", "Financials", "Competitors", "Outlook">>],
      [ok |-> TRUE,  angles |-> <<"SWOT", "Financials", "Competitors", "Outlook", "History">>],
      [ok |-> FALSE, angles |-> <<>>] }

FetchOutcomes == {"ok", "non200", "exception"}

NoSection == [angle |-> "", findings |-> <<>>]

\* The worker LLM is asked about `angle`; nothing constrains the strings of
\* the SectionFindings it returns.
WorkerReplies(angle) ==
    { [ok |-> TRUE,  out |-> [angle |-> angle, findings |-> <<"u1">>]],
      [ok |-> TRUE,  out |-> [angle |-> "Other", findings |-> <<"ux">>]],
      [ok |-> FALSE, out |-> NoSection] }

WriterReplies == { [ok |-> TRUE, out |-> "report"], [ok |-> FALSE, out |-> ""] }

-----------------------------------------------------------------------------
(* Pure parts of the code *)

\* Variant of search_duckduckgo that treats "no results" as a failure.
search_raising_on_empty(reply) ==
    [raised |-> ~reply.ok \/ reply.hits = <<>>,
     results |-> IF reply.ok THEN reply.hits ELSE <<>>]

\* search_duckduckgo: the provider's hits as SearchResults, or the
\* provider's exception passed on.
search_duckduckgo(reply) ==
    [raised |-> ~reply.ok, results |-> IF reply.ok THEN reply.hits ELSE <<>>]

\* Variant of fetch_page_content without the `except Exception` clause.
fetch_page_content_unguarded(outcome) ==
    [raised |-> outcome = "exception",
     content |-> IF outcome = "ok" THEN "text" ELSE ""]

\* fetch_page_content: the page text on a 200 response, "" otherwise; it
\* never raises.
fetch_page_content(outcome) ==
    [raised |-> FALSE, content |-> IF outcome = "ok" THEN "text" ELSE ""]

\* ResearchPlan: angles is a list of 3 to 4 entries.
ValidPlan(angles) == Len(angles) >= MinAngles /\ Len(angles) <= MaxAngles

\* Variant of the worker's query built from another field.
WorkerQueryFromContext(cls, angle) == <<cls.context, angle>>

\* The query run_worker builds.
WorkerQuery(cls, angle) == <<cls.resolved_name, angle>>

\* Variant of run_worker with the worker_agent.run call inside the fetch loop.
PhaseAfterFirstFetch(nblocks, nresults) ==
    IF nblocks >= 1 \/ nblocks = nresults THEN "llm" ELSE "fetching"

\* run_worker after nblocks of its nresults have been fetched: the loop goes
\* on, or the prompt is built and worker_agent.run is called.
PhaseAfterFetch(nblocks, nresults) ==
    IF nblocks = nresults THEN "llm" ELSE "fetching"

\* Variant of the deep-dive loop that walks the plan backwards.
NextAngleReversed(angles, ntasks) == angles[Len(angles) - ntasks]

\* The angle of the next iteration of `for angle in plan.angles`.
NextAngle(angles, ntasks) == angles[ntasks + 1]

\* No external call has been made.
NoCalls == [classifier |-> 0, discovery |-> 0, planner |-> 0, writer |-> 0,
            workers |-> <<>>]

NoWorkerCalls == [search |-> 0, fetch |-> 0, llm |-> 0]

\* The prompt run_research gives the planner.
PlannerPrompt(cls, results) == <<cls.resolved_name, results>>

\* Variant of the body in which the deep dive is skipped.
StageAfterSkippingDeepDive(s) ==
    CASE s = "start"        -> "classifying"
      [] s = "classifying"  -> "discovering"
      [] s = "discovering"  -> "planning"
      [] s = "planning"     -> "synthesizing"
      [] s = "synthesizing" -> "done"
      [] OTHER              -> s

\* The sequential body of run_research.
StageAfter(s) ==
    CASE s = "start"        -> "classifying"
      [] s = "classifying"  -> "discovering"
      [] s = "discovering"  -> "planning"
      [] s = "planning"     -> "deep_diving"
      [] s = "deep_diving"  -> "synthesizing"
      [] s = "synthesizing" -> "done"
      [] OTHER              -> s

\* Variant: asyncio.wait(..., return_when=FIRST_COMPLETED).
gather_first_completed(ts) ==
    IF \E i \in 1..Len(ts) : ts[i].phase = "raised" THEN "raise"
    ELSE IF \E i \in 1..Len(ts) : ts[i].phase = "done" THEN "return"
    ELSE "pending"

\* Variant: asyncio.gather(*tasks, return_exceptions=True).
gather_return_exceptions(ts) ==
    IF \A i \in 1..Len(ts) : ts[i].phase \in {"done", "raised"} THEN "return"
    ELSE "pending"

\* asyncio.gather(*tasks), return_exceptions=False: it raises as soon as one
\* task has raised, returns once every task has returned, and is pending
\* otherwise.
asyncio_gather(ts) ==
    IF \E i \in 1..Len(ts) : ts[i].phase = "raised" THEN "raise"
    ELSE IF \A i \in 1..Len(ts) : ts[i].phase = "done" THEN "return"
    ELSE "pending"

\* Variant: the results in completion order (asyncio.as_completed).
ResultsAsCompleted(ts, order) == [n \in 1..Len(order) |-> ts[order[n]].output]

\* The list gather returns: the results in the order of its arguments,
\* whatever the order in which the tasks completed.
GatherResults(ts, order) == [i \in 1..Len(ts) |-> ts[i].output]

\* The exception gather raises is that of the task that raised first.
GatherException(ts, order) ==
    LET raisedAt == {n \in 1..Len(order) : ts[order[n]].phase = "raised"}
    IN  order[CHOOSE n \in raisedAt : \A m \in raisedAt : n <= m]

RECURSIVE FindingLines(_)
FindingLines(fs) ==
    IF fs = <<>> THEN <<>>
    ELSE <<<<"claim", Head(fs)>>>> \o FindingLines(Tail(fs))

RECURSIVE SynthesisInput(_)
SynthesisInput(sections) ==
    IF sections = <<>> THEN <<>>
    ELSE <<<<"angle", Head(sections).angle>>>>
         \o FindingLines(Head(sections).findings)
         \o SynthesisInput(Tail(sections))

-----------------------------------------------------------------------------
(* app.py before a message is submitted *)

BridgeIdle ==
    /\ ui_pc = "idle"
    /\ message = <<>>
    /\ thread_pc = "unstarted"
    /\ pending = <<>>
    /\ events_seen = 0
    /\ search_count = 0
    /\ status_queue = <<>>
    /\ status_lines = <<>>
    /\ final_result = <<>>
    /\ shown = [history |-> <<>>, status |-> <<>>]
    /\ history = <<>>
    /\ stream = <<>>
    /\ put_log = <<>>
    /\ subs = <<>>

\* run_research before its first step
PipelineIdle ==
    /\ stage = "start"
    /\ classification = <<>>
    /\ discovery_reply = <<>>
    /\ discovery_results = <<>>
    /\ planner_prompt = <<>>
    /\ plan = <<>>
    /\ tasks = <<>>
    /\ gathered = FALSE
    /\ completed = <<>>
    /\ section_results = <<>>
    /\ synthesis_input = <<>>
    /\ progress = <<>>
    /\ errors = <<>>
    /\ calls = NoCalls

-----------------------------------------------------------------------------
(* run_research *)

Init == PipelineIdle /\ BridgeIdle /\ state = <<>>

\* An item run_research yields.
Item(tag, text, n) == [tag |-> tag, text |-> text, n |-> n]

\* An exception leaves run_research: the generator is finished and its
\* consumer gets the exception. task is 0 unless a worker raised it.
Fail(what, task) ==
    /\ stage' = "failed"
    /\ errors' = Append(errors, [from |-> what, task |-> task])

\* yield "Starting research for ..."
Start ==
    /\ UNCHANGED bridgeVars
    /\ stage = "start"
    /\ stage' = StageAfter(stage)
    /\ progress' = Append(progress, Item("start", "", 0))
    /\ UNCHANGED <<classification, discovery_reply, discovery_results,
                   planner_prompt, plan, tasks, gathered,
                   completed, section_results, synthesis_input, errors>>
    /\ UNCHANGED calls

\* classifier_agent.run(user_query), then yield "Type: ..., Resolved: ..."
Classify ==
    /\ UNCHANGED bridgeVars
    /\ stage = "classifying"
    /\ \E r \in ClassifierReplies :
         IF r.ok
         THEN /\ classification' = <<r.out>>
              /\ progress' = Append(progress, Item("classified", r.out.resolved_name, 0))
              /\ stage' = StageAfter(stage)
              /\ UNCHANGED errors
         ELSE /\ Fail("classifier", 0)
              /\ UNCHANGED <<classification, progress>>
    /\ UNCHANGED <<discovery_reply, discovery_results, planner_prompt, plan, tasks,
                   gathered, completed, section_results, synthesis_input>>
    /\ calls' = [calls EXCEPT !.classifier = @ + 1]

\* search_duckduckgo(discovery_query, max_results=3), then
\* yield "Generating research plan..."
Discover ==
    /\ UNCHANGED bridgeVars
    /\ stage = "discovering"
    /\ \E reply \in ProviderReplies :
         LET s == search_duckduckgo(reply) IN
         /\ discovery_reply' = <<reply>>
         /\ IF s.raised
            THEN /\ Fail("search", 0)
                 /\ UNCHANGED <<discovery_results, progress>>
            ELSE /\ discovery_results' = <<s.results>>
                 /\ progress' = Append(progress, Item("planning", "", 0))
                 /\ stage' = StageAfter(stage)
                 /\ UNCHANGED errors
    /\ UNCHANGED <<classification, planner_prompt, plan, tasks, gathered, completed,
                   section_results, synthesis_input>>
    /\ calls' = [calls EXCEPT !.discovery = @ + 1]

\* planner_agent.run(...), then yield "Plan generated with k research angles."
Plan ==
    /\ UNCHANGED bridgeVars
    /\ stage = "planning"
    /\ planner_prompt' = <<PlannerPrompt(classification[1], discovery_results[1])>>
    /\ \E r \in PlannerReplies :
         IF r.ok /\ ValidPlan(r.angles)
         THEN /\ plan' = r.angles
              /\ progress' = Append(progress, Item("planned", "", Len(r.angles)))
              /\ stage' = StageAfter(stage)
              /\ UNCHANGED errors
         ELSE /\ Fail("planner", 0)
              /\ UNCHANGED <<plan, progress>>
    /\ UNCHANGED <<classification, discovery_reply, discovery_results, tasks, gathered, completed,
                   section_results, synthesis_input>>
    /\ calls' = [calls EXCEPT !.planner = @ + 1]

NewTask(angle, cls) ==
    [angle |-> angle, cls |-> cls, phase |-> "created", query |-> <<>>,
     reply |-> <<>>, results |-> <<>>, findings_context |-> <<>>,
     output |-> NoSection, exc |-> ""]

\* One iteration of `for angle in plan.angles`: yield "Starting deep dive
\* for ..." and append the coroutine run_worker(angle, classification).
StartDeepDive ==
    /\ UNCHANGED bridgeVars
    /\ stage = "deep_diving"
    /\ ~gathered
    /\ Len(tasks) < Len(plan)
    /\ LET angle == NextAngle(plan, Len(tasks)) IN
         /\ progress' = Append(progress, Item("deep_dive", angle, 0))
         /\ tasks' = Append(tasks, NewTask(angle, classification[1]))
    /\ UNCHANGED <<stage, classification, discovery_reply, discovery_results,
                   planner_prompt, plan, gathered,
                   completed, section_results, synthesis_input, errors>>
    /\ calls' = [calls EXCEPT !.workers = Append(@, NoWorkerCalls)]

\* await asyncio.gather(*tasks): every coroutine becomes a scheduled task.
Gather ==
    /\ UNCHANGED bridgeVars
    /\ stage = "deep_diving"
    /\ ~gathered
    /\ Len(tasks) = Len(plan)
    /\ gathered' = TRUE
    /\ UNCHANGED <<stage, classification, discovery_reply, discovery_results,
                   planner_prompt, plan, tasks,
                   completed, section_results, synthesis_input, progress, errors>>
    /\ UNCHANGED calls

Started(i) == tasks[i].phase # "created"

\* run_worker up to its first await: the tasks take their first step in
\* the order gather scheduled them. The search is a blocking call.
WorkerSearch(i) ==
    /\ UNCHANGED bridgeVars
    /\ gathered
    /\ tasks[i].phase = "created"
    /\ \A j \in 1..(i - 1) : Started(j)
    /\ \E reply \in ProviderReplies :
         LET t == tasks[i]
             q == WorkerQuery(t.cls, t.angle)
             s == search_duckduckgo(reply) IN
         IF s.raised
         THEN /\ tasks' = [tasks EXCEPT ![i] =
                     [t EXCEPT !.phase = "raised", !.exc = "search",
                               !.query = q, !.reply = <<reply>>]]
              /\ completed' = Append(completed, i)
         ELSE /\ tasks' = [tasks EXCEPT ![i] =
                     [t EXCEPT !.phase = PhaseAfterFetch(0, Len(s.results)),
                               !.query = q, !.reply = <<reply>>,
                               !.results = s.results]]
              /\ UNCHANGED completed
    /\ UNCHANGED <<stage, classification, discovery_reply, discovery_results,
                   planner_prompt, plan, gathered,
                   section_results, synthesis_input, progress, errors>>
    /\ calls' = [calls EXCEPT !.workers[i].search = @ + 1,
                             !.workers[i].llm =
                                 IF tasks'[i].phase = "llm" THEN @ + 1 ELSE @]

\* One iteration of `for r in results`: await fetch_page_content(r.url) and
\* append the source block; after the last one the worker LLM call is issued.
WorkerFetch(i) ==
    /\ UNCHANGED bridgeVars
    /\ tasks[i].phase = "fetching"
    /\ \A j \in 1..Len(tasks) : Started(j)
    /\ \E outcome \in FetchOutcomes :
         LET t == tasks[i]
             r == t.results[Len(t.findings_context) + 1]
             f == fetch_page_content(outcome) IN
         IF f.raised
         THEN /\ tasks' = [tasks EXCEPT ![i] =
                     [t EXCEPT !.phase = "raised", !.exc = "fetch",
                               !.findings_context = <<>>]]
              /\ completed' = Append(completed, i)
         ELSE LET ctx == Append(t.findings_context, <<r, f.content>>) IN
              /\ tasks' = [tasks EXCEPT ![i] =
                     [t EXCEPT !.findings_context = ctx,
                               !.phase = PhaseAfterFetch(Len(ctx), Len(t.results))]]
              /\ UNCHANGED completed
    /\ UNCHANGED <<stage, classification, discovery_reply, discovery_results,
                   planner_prompt, plan, gathered,
                   section_results, synthesis_input, progress, errors>>
    /\ calls' = [calls EXCEPT !.workers[i].fetch = @ + 1,
                             !.workers[i].llm =
                                 IF tasks'[i].phase = "llm" THEN @ + 1 ELSE @]

\* worker_agent.run(prompt) returns or raises; run_worker returns result.output.
WorkerLLM(i) ==
    /\ UNCHANGED bridgeVars
    /\ tasks[i].phase = "llm"
    /\ \A j \in 1..Len(tasks) : Started(j)
    /\ \E r \in WorkerReplies(tasks[i].angle) :
         tasks' = [tasks EXCEPT ![i] =
             [@ EXCEPT !.phase = IF r.ok THEN "done" ELSE "raised",
                       !.exc = IF r.ok THEN "" ELSE "llm",
                       !.findings_context = <<>>,
                       !.output = r.out]]
    /\ completed' = Append(completed, i)
    /\ UNCHANGED <<stage, classification, discovery_reply, discovery_results,
                   planner_prompt, plan, gathered,
                   section_results, synthesis_input, progress, errors>>
    /\ UNCHANGED calls

\* gather returns: yield "Research completed. Synthesizing final report..."
GatherReturn ==
    /\ UNCHANGED bridgeVars
    /\ stage = "deep_diving"
    /\ gathered
    /\ \A j \in 1..Len(tasks) : Started(j)
    /\ asyncio_gather(tasks) = "return"
    /\ section_results' = GatherResults(tasks, completed)
    /\ progress' = Append(progress, Item("synthesizing", "", 0))
    /\ stage' = StageAfter(stage)
    /\ UNCHANGED <<classification, discovery_reply, discovery_results,
                   planner_prompt, plan, tasks, gathered,
                   completed, synthesis_input, errors>>
    /\ UNCHANGED calls

\* gather raises the first exception; the other tasks are not cancelled.
GatherRaise ==
    /\ UNCHANGED bridgeVars
    /\ stage = "deep_diving"
    /\ gathered
    /\ \A j \in 1..Len(tasks) : Started(j)
    /\ asyncio_gather(tasks) = "raise"
    /\ Fail("worker", GatherException(tasks, completed))
    /\ UNCHANGED <<classification, discovery_reply, discovery_results,
                   planner_prompt, plan, tasks, gathered,
                   completed, section_results, synthesis_input, progress>>
    /\ UNCHANGED calls

\* Build synthesis_input, writer_agent.run(synthesis_input), yield final_report.
Synthesize ==
    /\ UNCHANGED bridgeVars
    /\ stage = "synthesizing"
    /\ synthesis_input' =
          << <<<<"topic", classification[1].resolved_name>>>>
             \o SynthesisInput(section_results) >>
    /\ \E r \in WriterReplies :
         IF r.ok
         THEN /\ progress' = Append(progress, Item("report", r.out, 0))
              /\ stage' = StageAfter(stage)
              /\ UNCHANGED errors
         ELSE /\ Fail("writer", 0)
              /\ UNCHANGED progress
    /\ UNCHANGED <<classification, discovery_reply, discovery_results,
                   planner_prompt, plan, tasks, gathered,
                   completed, section_results>>
    /\ calls' = [calls EXCEPT !.writer = @ + 1]

Next ==
    \/ Start
    \/ Classify
    \/ Discover
    \/ Plan
    \/ StartDeepDive
    \/ Gather
    \/ \E i \in 1..Len(tasks) : WorkerSearch(i)
    \/ \E i \in 1..Len(tasks) : WorkerFetch(i)
    \/ \E i \in 1..Len(tasks) : WorkerLLM(i)
    \/ GatherReturn
    \/ GatherRaise
    \/ Synthesize

Spec == Init /\ [][Next]_vars

-----------------------------------------------------------------------------
(* Properties of run_research and run_worker, checked under Spec *)

Range(f) == {f[i] : i \in DOMAIN f}

Yielded(tag) == \E n \in 1..Len(progress) : progress[n].tag = tag

\* The synthesis stage has begun: its progress message was yielded or the
\* writer was called.
SynthesisBegun ==
    \/ stage \in {"synthesizing", "done"}
    \/ Yielded("synthesizing")
    \/ synthesis_input # <<>>

\* C1: for a plan with k angles exactly k run_worker tasks are started, one
\* per plan angle, and synthesis begins only after all k have returned,
\* whatever the order in which they complete.
C1_BarrierOverAllWorkers ==
    /\ Len(tasks) <= Len(plan)
    /\ \A i \in 1..Len(tasks) : tasks[i].angle = plan[i]
    /\ gathered => Len(tasks) = Len(plan)
    /\ (\E i \in 1..Len(tasks) : tasks[i].phase # "created") => gathered
    /\ SynthesisBegun =>
          /\ Len(tasks) = Len(plan)
          /\ \A i \in 1..Len(tasks) : tasks[i].phase = "done"
          /\ Len(completed) = Len(plan)

\* Synthesis has begun after four workers completed in reverse order.
C1_Witness ==
    /\ stage = "synthesizing"
    /\ Len(plan) = 4
    /\ completed = <<4, 3, 2, 1>>

C2_State ==
    /\ Len(errors) <= 1
    /\ (stage = "failed") <=> (errors # <<>>)
    /\ stage = "failed" => ~Yielded("report")
    /\ (\E i \in 1..Len(tasks) : tasks[i].phase = "raised") =>
          /\ stage \in {"deep_diving", "failed"}
          /\ ~SynthesisBegun
    /\ errors # <<>> =>
          LET e == errors[1] IN
          /\ e.from = "classifier" => classification = <<>> /\ discovery_reply = <<>>
          /\ e.from = "search"     => discovery_results = <<>> /\ planner_prompt = <<>>
          /\ e.from = "planner"    => plan = <<>> /\ tasks = <<>>
          /\ e.from = "worker"     => /\ tasks[e.task].phase = "raised"
                                      /\ ~SynthesisBegun
          /\ e.from = "writer"     => synthesis_input # <<>>

C2_Step ==
    stage = "failed" => /\ stage' = "failed"
                        /\ errors' = errors
                        /\ progress' = progress
                        /\ section_results' = section_results
                        /\ synthesis_input' = synthesis_input

\* C2: when a stage's call raises, the run ends failed: the report is never
\* yielded, no later stage is entered, and exactly one error reaches the
\* caller, also when several workers raise and the others return.
C2_FailStop == []C2_State /\ [][C2_Step]_vars

\* The run has failed; two workers raised and another returned.
C2_Witness ==
    /\ stage = "failed"
    /\ Len(errors) = 1
    /\ Cardinality({i \in 1..Len(tasks) : tasks[i].phase = "raised"}) >= 2
    /\ \E i \in 1..Len(tasks) : tasks[i].phase = "done"

\* C3: failed fetches never make run_worker raise; each contributes a source
\* block with empty content and, after the last one, the worker LLM call is
\* issued.
C3_FetchFailureNotFatal ==
    \A i \in 1..Len(tasks) :
       LET t == tasks[i] IN
       /\ t.exc # "fetch"
       /\ t.phase = "raised" => t.exc \in {"search", "llm"}
       /\ t.phase = "fetching" => Len(t.findings_context) < Len(t.results)
       /\ t.phase = "llm" =>
             /\ Len(t.findings_context) = Len(t.results)
             /\ \A n \in 1..Len(t.results) :
                   /\ t.findings_context[n][1] = t.results[n]
                   /\ t.findings_context[n][2] \in {"", "text"}

\* A worker whose every fetch failed is waiting for its LLM call.
C3_Witness ==
    \E i \in 1..Len(tasks) :
       /\ tasks[i].phase = "llm"
       /\ tasks[i].results # <<>>
       /\ \A n \in 1..Len(tasks[i].results) : tasks[i].findings_context[n][2] = ""

\* C4: on a successful run the sections given to the writer number 3 to 4,
\* each carries the angle of one of the plan's angles, and no two sections
\* carry the same angle.
C4_SectionsKeyedToDistinctAngles ==
    stage = "done" =>
       /\ Len(section_results) \in MinAngles..MaxAngles
       /\ \A i \in 1..Len(section_results) : section_results[i].angle \in Range(plan)
       /\ \A i, j \in 1..Len(section_results) :
             i # j => section_results[i].angle # section_results[j].angle

\* C5: every finding of a returned worker cites a URL that the search of
\* that worker returned.
C5_CitationGrounding ==
    \A i \in 1..Len(tasks) :
       tasks[i].phase = "done" =>
          \A n \in 1..Len(tasks[i].output.findings) :
             tasks[i].output.findings[n] \in Range(tasks[i].results)

Stages == <<"start", "classifying", "discovering", "planning", "deep_diving",
            "synthesizing", "done">>

StageRank(s) == CHOOSE n \in 1..Len(Stages) : Stages[n] = s

Terminal == {"done", "failed"}

C6_Step ==
    stage' # stage =>
       /\ stage \notin Terminal
       /\ \/ stage' = "failed" /\ stage # "start"
          \/ /\ stage' \in Range(Stages)
             /\ StageRank(stage') = StageRank(stage) + 1

\* C6: the stage only moves one step forward along start .. done, or to
\* failed; done and failed are never left, and a run that is in neither can
\* always take a further step, so it can only end in one of the two.
C6_StagesStrictlyOrdered ==
    /\ [](stage \in Range(Stages) \cup {"failed"})
    /\ [](stage \notin Terminal => ENABLED Next)
    /\ [][C6_Step]_vars

\* A run that went through every stage.
C6_Witness ==
    /\ stage = "done"
    /\ Yielded("start") /\ Yielded("classified") /\ Yielded("planning")
    /\ Yielded("planned") /\ Yielded("deep_dive") /\ Yielded("synthesizing")
    /\ Yielded("report")

\* The sections in plan order, from the workers' own results.
SectionsInPlanOrder == [i \in 1..Len(tasks) |-> tasks[i].output]

\* C7: the section at position i of the writer's input is the result of the
\* worker started for plan angle i, whatever the completion order.
C7_SynthesisInputInPlanOrder ==
    /\ SynthesisBegun =>
          /\ Len(section_results) = Len(plan)
          /\ \A i \in 1..Len(plan) : section_results[i] = tasks[i].output
    /\ synthesis_input # <<>> =>
          synthesis_input[1] = <<<<"topic", classification[1].resolved_name>>>>
                               \o SynthesisInput(SectionsInPlanOrder)

\* The writer was called after the workers, whose results differ, completed
\* last-first.
C7_Witness ==
    /\ synthesis_input # <<>>
    /\ Len(plan) = 3
    /\ completed = <<3, 2, 1>>
    /\ tasks[1].output # tasks[3].output

\* The provider answered a search normally and with no results.
EmptyAnswer(reply) == reply # <<>> /\ reply[1].ok /\ reply[1].hits = <<>>

\* C9: an empty result set is not an error: after an empty discovery search
\* the planner is called with empty context, and a worker whose search is
\* empty fetches nothing and issues its LLM call.
C9_EmptySearchNotAnError ==
    /\ EmptyAnswer(discovery_reply) =>
          /\ discovery_results = <<<<>>>>
          /\ stage # "discovering"
          /\ errors # <<>> => errors[1].from # "search"
          /\ stage = "planning" \/ planner_prompt = <<<<classification[1].resolved_name, <<>>>>>>
    /\ \A i \in 1..Len(tasks) :
          EmptyAnswer(tasks[i].reply) =>
             /\ tasks[i].results = <<>>
             /\ tasks[i].findings_context = <<>>
             /\ tasks[i].phase \in {"llm", "done", "raised"}
             /\ tasks[i].exc \in {"", "llm"}

\* A run reached done although the discovery search and one worker's search
\* returned nothing.
C9_Witness ==
    /\ stage = "done"
    /\ EmptyAnswer(discovery_reply)
    /\ \E i \in 1..Len(tasks) : EmptyAnswer(tasks[i].reply)

C10_State ==
    /\ classification = <<>> <=> (stage \in {"start", "classifying"}
                                  \/ (errors # <<>> /\ errors[1].from = "classifier"))
    /\ planner_prompt # <<>> => planner_prompt[1][1] = classification[1].resolved_name
    /\ \A i \in 1..Len(tasks) :
          /\ tasks[i].cls = classification[1]
          /\ tasks[i].phase # "created" =>
                tasks[i].query = <<classification[1].resolved_name, tasks[i].angle>>
    /\ synthesis_input # <<>> =>
          synthesis_input[1][1] = <<"topic", classification[1].resolved_name>>

C10_Step ==
    classification' # classification =>
       /\ classification = <<>>
       /\ stage = "classifying"

\* C10: the classification is produced once, in the classifying stage, and
\* never changes afterwards; the planner, every worker and the writer's input
\* use that same value.
C10_ClassificationImmutable == []C10_State /\ [][C10_Step]_vars

\* Every worker of a 4-angle plan has run its search and the run is done.
C10_Witness ==
    /\ stage = "done"
    /\ Len(tasks) = 4
    /\ \A i \in 1..Len(tasks) : tasks[i].query # <<>>

\* C11: on a successful run with k angles the external calls are one
\* classifier call, then one discovery search, one planner call, one search
\* and one LLM call per worker (the LLM call after all of that worker's
\* fetches) and one writer call, which is the last call; none is repeated.
C11_State ==
    /\ calls.classifier <= 1 /\ calls.discovery <= 1
    /\ calls.planner <= 1 /\ calls.writer <= 1
    /\ Len(calls.workers) = Len(tasks)
    /\ \A i \in 1..Len(tasks) :
          LET w == calls.workers[i] IN
          /\ w.search <= 1 /\ w.llm <= 1
          /\ w.fetch <= Len(tasks[i].results)
          /\ w.fetch > 0 => w.search = 1
          /\ w.llm = 1 => w.search = 1 /\ w.fetch = Len(tasks[i].results)
          /\ w.search = 1 => calls.planner = 1
    /\ calls.discovery = 1 => calls.classifier = 1
    /\ calls.planner = 1 => calls.discovery = 1
    /\ calls.writer = 1 =>
          /\ Len(tasks) = Len(plan)
          /\ \A i \in 1..Len(tasks) : calls.workers[i].llm = 1
    /\ stage = "done" =>
          /\ calls.classifier = 1 /\ calls.discovery = 1
          /\ calls.planner = 1 /\ calls.writer = 1
          /\ Len(calls.workers) = Len(plan)
          /\ \A i \in 1..Len(plan) :
                calls.workers[i].search = 1 /\ calls.workers[i].llm = 1

C11_Step == calls.writer = 1 => calls' = calls

C11_ExternalCallsOncePerStage == []C11_State /\ [][C11_Step]_vars

\* A 4-angle run is done; one worker fetched two pages and one fetched none.
C11_Witness ==
    /\ stage = "done"
    /\ Len(plan) = 4
    /\ \E i \in 1..4 : calls.workers[i].fetch = 2
    /\ \E i \in 1..4 : calls.workers[i].fetch = 0

\* The items a successful run yields, for its classification and plan.
ExpectedProgress ==
    << [tag |-> "start", text |-> "", n |-> 0],
       [tag |-> "classified", text |-> classification[1].resolved_name, n |-> 0],
       [tag |-> "planning", text |-> "", n |-> 0],
       [tag |-> "planned", text |-> "", n |-> Len(plan)] >>
    \o [i \in 1..Len(plan) |-> [tag |-> "deep_dive", text |-> plan[i], n |-> 0]]
    \o << [tag |-> "synthesizing", text |-> "", n |-> 0],
          [tag |-> "report", text |-> "report", n |-> 0] >>

IsPrefix(a, b) == Len(a) <= Len(b) /\ SubSeq(b, 1, Len(a)) = a

C12_State ==
    /\ stage = "done" => progress = ExpectedProgress
    /\ (stage \notin {"start", "classifying"} /\ classification # <<>> /\ plan # <<>>)
          => IsPrefix(progress, ExpectedProgress)
    /\ (\E i \in 1..Len(tasks) : tasks[i].phase # "created") =>
          Cardinality({n \in 1..Len(progress) : progress[n].tag = "deep_dive"})
             = Len(plan)
    /\ Yielded("report") => progress[Len(progress)].tag = "report"

C12_Step ==
    /\ IsPrefix(progress, progress')
    /\ (stage' # stage /\ stage' # "failed") => Len(progress') = Len(progress) + 1

\* C12: a successful run with k angles yields the start message, the
\* classification, 'Generating research plan', 'Plan generated with k',
\* k 'Starting deep dive' messages in plan order before any worker runs,
\* 'Synthesizing' and last the report; every stage change yields one item.
C12_ProgressItemsInOrder == []C12_State /\ [][C12_Step]_vars

\* A 4-angle run has yielded its report.
C12_Witness ==
    /\ stage = "done"
    /\ Len(plan) = 4
    /\ Len(progress) = 10

-----------------------------------------------------------------------------
(* app.py: _run_agent_with_events and chat_with_status *)

\* Bound on the events one run of agent.run_stream_events delivers.
MaxEvents == 3

\* queue.Queue(): maxsize 0, no upper limit.
QueueMaxsize == 0

TYPING_PLACEHOLDER == "typing"

\* Messages a user may submit, as tuples of characters.
Messages == { <<>>, <<" ">>, <<"N">>, <<" ", "N">> }

\* What gr.State may hold when a message is submitted: nothing, or one
\* earlier exchange.
Histories == { <<>>, << <<<<"T">>, "report">> >> }

\* Lengths of the query argument of a tool call (0: the call has no query).
QueryLengths == {0, 10, 50, 51}

\* A query of n characters; character i is written i, and "." is written 0.
Query(n) == [i \in 1..n |-> i]

\* The events of the stream that _run_agent_with_events tells apart.
Events ==
    [kind : {"tool"}, qlen : QueryLengths, output : {FALSE}]
    \cup [kind : {"result"}, qlen : {0}, output : BOOLEAN]
    \cup [kind : {"other"}, qlen : {0}, output : {FALSE}]

RECURSIVE LStrip(_)
LStrip(m) == IF m # <<>> /\ Head(m) = " " THEN LStrip(Tail(m)) ELSE m

RECURSIVE RStrip(_)
RStrip(m) ==
    IF m # <<>> /\ m[Len(m)] = " " THEN RStrip(SubSeq(m, 1, Len(m) - 1)) ELSE m

\* Variant of the blank test without strip().
NoStrip(m) == m

\* str.strip()
Strip(m) == RStrip(LStrip(m))

\* Variant: queue.Queue(maxsize=1).
FullAtOne(q) == Len(q) >= 1

\* Queue.full(): a put blocks while this holds.
Full(q) == QueueMaxsize > 0 /\ Len(q) >= QueueMaxsize

\* Variant: queue.LifoQueue.
LifoGet(q) == [item |-> q[Len(q)], rest |-> SubSeq(q, 1, Len(q) - 1)]

\* Queue.get on a non-empty queue: the oldest item.
QueueGet(q) == [item |-> Head(q), rest |-> Tail(q)]

\* A status string put on the queue.
StatusItem(kind, n, q) ==
    [is_tuple |-> FALSE, first |-> kind, n |-> n, q |-> q, second |-> ""]

\* The pair (None, payload) put on the queue.
TerminalItem(payload) ==
    [is_tuple |-> TRUE, first |-> "None", n |-> 0, q |-> <<>>, second |-> payload]

\* isinstance(item, tuple) and item[0] is None
IsTerminal(item) == item.is_tuple /\ item.first = "None"

\* Variant of run() without the `return` after the result is put.
AfterPutNoReturn(item) == "running"

\* Where the thread is after a put: the result item is followed by `return`,
\* the exception item is the last statement of run().
AfterPut(item) == IF IsTerminal(item) THEN "exited" ELSE "running"

\* if len(q) > 50: q = q[:47] + "..."
Truncate(q) == IF Len(q) > 50 THEN SubSeq(q, 1, 47) \o <<0, 0, 0>> ELSE q

\* Variant that numbers the deep dives with the search count itself.
SearchStatusOffByOne(count, q) ==
    IF count = 1
    THEN StatusItem("initial_discovery", 0, <<>>)
    ELSE StatusItem("deep_dive", count, Truncate(q))

\* The status a FunctionToolCallEvent with a query produces, given the
\* search_count after counting it.
SearchStatus(count, q) ==
    IF count = 1
    THEN StatusItem("initial_discovery", 0, <<>>)
    ELSE StatusItem("deep_dive", count - 1, Truncate(q))

\* A fixed line of the status area.
Line(text) == StatusItem(text, 0, <<>>)

InitialStatusLines ==
    <<Line("### Current step"), Line(""), Line("checking_intent"), Line("")>>

\* Variant without the hasattr(final_result, "output") test.
OutcomeWithoutFormatTest(payload) ==
    IF payload = "exception" THEN "error" ELSE "done"

\* The three ways chat_with_status ends, by the payload of the terminal item.
Outcome(payload) ==
    IF payload = "exception" THEN "error"
    ELSE IF payload = "no_output" THEN "error_format"
    ELSE "done"

\* The assistant entry of the final yield.
Answer(outcome) ==
    CASE outcome = "error"        -> "**Error:** exception"
      [] outcome = "error_format" -> "**Error:** Unexpected result format."
      [] OTHER                    -> "report"

\* submit_wrapper calls chat_with_status(message, history) with the stored
\* history; up to the first yield.
Submit ==
    /\ UNCHANGED pipeVars
    /\ ui_pc = "idle"
    /\ history' = state
    /\ \E m \in Messages :
         /\ message' = m
         /\ IF Strip(m) = <<>>
            THEN /\ shown' = [history |-> state, status |-> <<>>]
                 /\ ui_pc' = "finished"
                 /\ UNCHANGED <<thread_pc, status_lines>>
            ELSE /\ status_lines' = InitialStatusLines
                 /\ thread_pc' = "running"
                 /\ shown' = [history |-> Append(state, <<m, TYPING_PLACEHOLDER>>),
                              status |-> InitialStatusLines]
                 /\ ui_pc' = "polling"
    /\ state' = shown'.history
    /\ UNCHANGED <<pending, events_seen, search_count, status_queue, final_result,
                   stream, put_log, subs>>

\* One iteration of `async for event in agent.run_stream_events(message)`, up
\* to the put it makes, if any.
ProducerEvent ==
    /\ UNCHANGED pipeVars
    /\ thread_pc = "running"
    /\ pending = <<>>
    /\ events_seen < MaxEvents
    /\ events_seen' = events_seen + 1
    /\ \E e \in Events :
         /\ stream' = Append(stream, e)
         /\ CASE e.kind = "tool" /\ e.qlen > 0 ->
                   /\ search_count' = search_count + 1
                   /\ pending' = <<SearchStatus(search_count + 1, Query(e.qlen))>>
              [] e.kind = "tool" /\ e.qlen = 0 ->
                   /\ pending' = <<StatusItem("calling", 0, <<>>)>>
                   /\ UNCHANGED search_count
              [] e.kind = "result" ->
                   /\ pending' = <<TerminalItem(IF e.output THEN "result" ELSE "no_output")>>
                   /\ UNCHANGED search_count
              [] OTHER ->
                   UNCHANGED <<pending, search_count>>
    /\ UNCHANGED <<ui_pc, message, thread_pc, status_queue, status_lines,
                   final_result, shown, history, state, put_log, subs>>

\* The stream (or the handling of an event) raises: except Exception as e.
ProducerRaise ==
    /\ UNCHANGED pipeVars
    /\ thread_pc = "running"
    /\ pending = <<>>
    /\ pending' = <<TerminalItem("exception")>>
    /\ UNCHANGED <<ui_pc, message, thread_pc, events_seen, search_count,
                   status_queue, status_lines, final_result, shown, history, state,
                   stream, put_log, subs>>

\* The stream ends without an AgentRunResultEvent: run() falls off its loop.
ProducerEnd ==
    /\ UNCHANGED pipeVars
    /\ thread_pc = "running"
    /\ pending = <<>>
    /\ thread_pc' = "exited"
    /\ UNCHANGED <<ui_pc, message, pending, events_seen, search_count,
                   status_queue, status_lines, final_result, shown, history, state,
                   stream, put_log, subs>>

\* status_queue.put(item) completes; after the terminal item run() is over.
ProducerPut ==
    /\ UNCHANGED pipeVars
    /\ thread_pc = "running"
    /\ pending # <<>>
    /\ ~Full(status_queue)
    /\ status_queue' = Append(status_queue, pending[1])
    /\ put_log' = Append(put_log, pending[1])
    /\ pending' = <<>>
    /\ thread_pc' = AfterPut(pending[1])
    /\ UNCHANGED <<ui_pc, message, events_seen, search_count, status_lines,
                   final_result, shown, history, state, stream, subs>>

\* status_queue.get(timeout=0.4) returns an item.
PollItem ==
    /\ UNCHANGED pipeVars
    /\ ui_pc = "polling"
    /\ status_queue # <<>>
    /\ LET got == QueueGet(status_queue) IN
         /\ status_queue' = got.rest
         /\ IF IsTerminal(got.item)
            THEN /\ final_result' = <<got.item.second>>
                 /\ ui_pc' = "joining"
                 /\ UNCHANGED <<status_lines, shown>>
            ELSE /\ status_lines' = status_lines \o <<got.item, Line("")>>
                 /\ shown' = [shown EXCEPT !.status = status_lines']
                 /\ UNCHANGED <<final_result, ui_pc>>
    /\ state' = shown'.history
    /\ UNCHANGED <<message, thread_pc, pending, events_seen, search_count,
                   history, stream, put_log, subs>>

\* status_queue.get(timeout=0.4) raises queue.Empty: re-yield.
PollEmpty ==
    /\ UNCHANGED pipeVars
    /\ ui_pc = "polling"
    /\ status_queue = <<>>
    /\ shown' = [shown EXCEPT !.status = status_lines]
    /\ state' = shown'.history
    /\ UNCHANGED <<ui_pc, message, thread_pc, pending, events_seen, search_count,
                   status_queue, status_lines, final_result, history, stream,
                   put_log, subs>>

\* thread.join() returns, the synthesis line is added and yielded.
Join ==
    /\ UNCHANGED pipeVars
    /\ ui_pc = "joining"
    /\ thread_pc = "exited"
    /\ status_lines' = status_lines \o <<Line("synthesis"), Line("")>>
    /\ shown' = [shown EXCEPT !.status = status_lines']
    /\ state' = shown'.history
    /\ ui_pc' = "synthesis"
    /\ UNCHANGED <<message, thread_pc, pending, events_seen, search_count,
                   status_queue, final_result, history, stream, put_log, subs>>

\* The last yield of chat_with_status.
Finish ==
    /\ UNCHANGED pipeVars
    /\ ui_pc = "synthesis"
    /\ LET outcome == Outcome(final_result[1])
           final_history == Append(history, <<message, Answer(outcome)>>) IN
         IF outcome = "done"
         THEN /\ status_lines' = Append(status_lines, Line("done"))
              /\ shown' = [history |-> final_history, status |-> status_lines']
         ELSE /\ shown' = [history |-> final_history,
                           status |-> status_lines \o <<Line(""), Line("error")>>]
              /\ UNCHANGED status_lines
    /\ state' = shown'.history
    /\ ui_pc' = "finished"
    /\ UNCHANGED <<message, thread_pc, pending, events_seen, search_count,
                   status_queue, final_result, history, stream, put_log, subs>>

BridgeNext ==
    \/ Submit
    \/ ProducerEvent
    \/ ProducerRaise
    \/ ProducerEnd
    \/ ProducerPut
    \/ PollItem
    \/ PollEmpty
    \/ Join
    \/ Finish

\* A session whose gr.State holds nothing or one earlier exchange.
BridgeInit == PipelineIdle /\ BridgeIdle /\ state \in Histories

BridgeSpec == BridgeInit /\ [][BridgeNext]_vars

-----------------------------------------------------------------------------
(* Properties of the thread + queue bridge, checked under BridgeSpec *)

\* C8: the producer never blocks on the status queue: whenever the thread is
\* inside status_queue.put, the put can complete at once, however many items
\* are undelivered.
C8_ProducerNeverBlocks ==
    (thread_pc = "running" /\ pending # <<>>) => ENABLED ProducerPut

\* The producer is at a put with two items undelivered and the consumer has
\* not taken any item yet.
C8_Witness ==
    /\ thread_pc = "running"
    /\ pending # <<>>
    /\ Len(status_queue) >= 2
    /\ ui_pc = "polling"
    /\ status_lines = InitialStatusLines

\* The status strings among the items of a sequence, in order.
Statuses(items) == SelectSeq(items, LAMBDA x : ~IsTerminal(x))

\* The terminal items of a sequence, in order.
Terminals(items) == SelectSeq(items, IsTerminal)

\* The lines of a status area that came through the queue.
FromQueue(lines) ==
    SelectSeq(lines,
              LAMBDA l : l.first \in {"initial_discovery", "deep_dive", "calling"})

\* A message str.strip() leaves nothing of.
IsBlank(m) == \A i \in 1..Len(m) : m[i] = " "

\* C13: for every non-blank message the polling loop of chat_with_status
\* exits once the agent's event stream has ended, whether it ended with a
\* result event, with an exception, or without a result event: when the
\* producer thread is over and the consumer is still polling, the terminal
\* item that lets the loop break is in the queue.
C13_PollingLoopExitsAfterStreamEnd ==
    (ui_pc = "polling" /\ thread_pc = "exited")
        => Terminals(status_queue) # <<>>

\* C14: in one run the producer enqueues at most one terminal item, carrying
\* either the result or the exception, and no item after it; the consumer
\* takes only status strings into the status lines and only the terminal
\* item's payload as final_result.
C14_OneTerminalItemAndItIsLast ==
    /\ Len(Terminals(put_log)) <= 1
    /\ \A i \in 1..Len(put_log) :
         IsTerminal(put_log[i]) =>
            /\ i = Len(put_log)
            /\ pending = <<>>
            /\ thread_pc = "exited"
            /\ put_log[i].second \in {"result", "no_output", "exception"}
    /\ \A i \in 1..Len(status_lines) : ~IsTerminal(status_lines[i])
    /\ final_result # <<>> =>
         /\ Terminals(put_log) # <<>>
         /\ final_result[1] = Terminals(put_log)[1].second
         /\ Statuses(put_log) = FromQueue(status_lines)

\* The consumer has taken the terminal item after two status strings.
C14_Witness ==
    /\ final_result # <<>>
    /\ Len(put_log) = 3
    /\ IsTerminal(put_log[3])
    /\ status_queue = <<>>

\* The lines of the displayed status that came through the queue.
ShownStatuses == FromQueue(shown.status)

C15_State ==
    /\ IsPrefix(ShownStatuses, Statuses(put_log))
    /\ (ui_pc = "finished" /\ ~IsBlank(message)) =>
          ShownStatuses = Statuses(put_log)

C15_Step == IsPrefix(shown.status, shown'.status)

\* C15: no status is lost, duplicated or reordered by the queue: the queued
\* statuses displayed are always a prefix of what the producer has put, at
\* the final yield they are all of it, and the displayed list only grows.
C15_StatusesDeliveredInOrder == []C15_State /\ [][C15_Step]_vars

\* The final yield shows two different statuses, in the producer's order.
C15_Witness ==
    /\ ui_pc = "finished"
    /\ Len(Statuses(put_log)) >= 2
    /\ put_log[1] # put_log[2]
    /\ ShownStatuses = Statuses(put_log)

\* How often a fixed line occurs in a sequence of status lines.
Occurrences(lines, text) == Len(SelectSeq(lines, LAMBDA l : l = Line(text)))

\* The assistant entry of the chat history last yielded.
ShownAnswer == shown.history[Len(shown.history)][2]

C16_State ==
    /\ Occurrences(shown.status, "done") + Occurrences(shown.status, "error") <= 1
    /\ Occurrences(shown.status, "done") = 1 <=>
          /\ ui_pc = "finished"
          /\ final_result = <<"result">>
    /\ Occurrences(shown.status, "error") = 1 <=>
          /\ ui_pc = "finished"
          /\ final_result # <<>>
          /\ final_result[1] \in {"exception", "no_output"}
    /\ (ui_pc = "finished" /\ ~IsBlank(message)) =>
          /\ final_result = <<"result">> <=> ShownAnswer = "report"
          /\ final_result = <<"exception">> <=> ShownAnswer = "**Error:** exception"
          /\ final_result = <<"no_output">> <=>
                ShownAnswer = "**Error:** Unexpected result format."
    /\ (ui_pc \in {"polling", "joining", "synthesis"}) =>
          ShownAnswer = TYPING_PLACEHOLDER
    /\ Occurrences(status_lines, "synthesis") =
          (IF ui_pc \in {"synthesis", "finished"} /\ ~IsBlank(message) THEN 1 ELSE 0)
    /\ Occurrences(status_lines, "synthesis") = 1 => thread_pc = "exited"

ShownQuery(q) ==
    IF Len(q) > 50 THEN [i \in 1..50 |-> IF i <= 47 THEN q[i] ELSE 0] ELSE q

\* The statuses a sequence of events calls for, `count` queries having
\* been seen before it.
RECURSIVE ExpectedStatuses(_, _)
ExpectedStatuses(evs, count) ==
    IF evs = <<>> THEN <<>>
    ELSE LET e == Head(evs) IN
         IF e.kind = "tool" /\ e.qlen > 0
         THEN << IF count = 0
                 THEN StatusItem("initial_discovery", 0, <<>>)
                 ELSE StatusItem("deep_dive", count, ShownQuery(Query(e.qlen))) >>
              \o ExpectedStatuses(Tail(evs), count + 1)
         ELSE IF e.kind = "tool"
         THEN <<StatusItem("calling", 0, <<>>)>> \o ExpectedStatuses(Tail(evs), count)
         ELSE ExpectedStatuses(Tail(evs), count)

\* The events that are tool calls with a query.
QueryCalls(evs) == SelectSeq(evs, LAMBDA e : e.kind = "tool" /\ e.qlen > 0)

\* C19: the first tool call with a query gives the initial discovery status,
\* the n-th (n >= 2) gives deep dive n-1, a tool call without a query gives
\* a calling status and leaves the count alone, and a query of more than 50
\* characters is shown as its first 47 characters and "...".
C19_StatusNumberingAndTruncation ==
    /\ Statuses(put_log \o pending) = ExpectedStatuses(stream, 0)
    /\ search_count = Len(QueryCalls(stream))
    /\ \A i \in 1..Len(put_log) : Len(put_log[i].q) <= 50

\* The third query, of 51 characters, came after a tool call without one.
C19_Witness ==
    /\ \E i \in 1..Len(put_log) :
         /\ put_log[i].first = "deep_dive"
         /\ put_log[i].n = 2
         /\ Len(put_log[i].q) = 50
         /\ put_log[i].q[47] = 47
         /\ put_log[i].q[48] = 0
    /\ stream[Len(stream)].qlen = 51

-----------------------------------------------------------------------------
(* app.py: submit_wrapper, run by the two listeners of one session *)

\* Bound on the submissions of one session.
MaxSubmissions == 2

\* The assistant entries a final yield of chat_with_status may carry.
FinalAnswers == { Answer(Outcome(p)) : p \in {"result", "no_output", "exception"} }

\* The variables of one run of chat_with_status and its thread.
chatVars == <<ui_pc, message, thread_pc, pending, events_seen, search_count,
              status_queue, status_lines, final_result, shown, history, stream,
              put_log>>

\* A listener calls submit_wrapper(message, history) with the value gr.State
\* holds at that moment.
SessionSubmit ==
    /\ UNCHANGED <<pipeVars, chatVars, state>>
    /\ Len(subs) < MaxSubmissions
    /\ \E m \in Messages :
         subs' = Append(subs, [message |-> m, history |-> state,
                               pc |-> "called", answer |-> ""])

\* The first yield of a run: the unchanged history for a blank message, else
\* history + [(message, TYPING_PLACEHOLDER)]; its third output is stored.
SessionFirstYield(i) ==
    /\ UNCHANGED <<pipeVars, chatVars>>
    /\ subs[i].pc = "called"
    /\ IF Strip(subs[i].message) = <<>>
       THEN /\ state' = subs[i].history
            /\ subs' = [subs EXCEPT ![i].pc = "finished"]
       ELSE /\ state' = Append(subs[i].history,
                               <<subs[i].message, TYPING_PLACEHOLDER>>)
            /\ subs' = [subs EXCEPT ![i].pc = "typing"]

\* A later yield of history_with_typing: a status, a re-yield on queue.Empty
\* or the synthesis line.
SessionReyield(i) ==
    /\ UNCHANGED <<pipeVars, chatVars>>
    /\ subs[i].pc = "typing"
    /\ state' = Append(subs[i].history, <<subs[i].message, TYPING_PLACEHOLDER>>)
    /\ UNCHANGED subs

\* The final yield of a run: history + [(message, report or error text)].
SessionFinalYield(i) ==
    /\ UNCHANGED <<pipeVars, chatVars>>
    /\ subs[i].pc = "typing"
    /\ \E a \in FinalAnswers :
         /\ state' = Append(subs[i].history, <<subs[i].message, a>>)
         /\ subs' = [subs EXCEPT ![i].pc = "finished", ![i].answer = a]

SessionNext ==
    \/ SessionSubmit
    \/ \E i \in 1..Len(subs) : SessionFirstYield(i)
    \/ \E i \in 1..Len(subs) : SessionReyield(i)
    \/ \E i \in 1..Len(subs) : SessionFinalYield(i)

\* state = gr.State(value=[])
SessionSpec == Init /\ [][SessionNext]_vars

-----------------------------------------------------------------------------
(* Properties of the stored history, checked under SessionSpec *)

\* One (user message, final answer) pair per non-blank submission, in
\* submission order.
RECURSIVE CompletedPairs(_)
CompletedPairs(ss) ==
    IF ss = <<>> THEN <<>>
    ELSE (IF IsBlank(Head(ss).message)
          THEN <<>>
          ELSE << <<Head(ss).message, Head(ss).answer>> >>)
         \o CompletedPairs(Tail(ss))

\* C17: once every submission made through submit_wrapper has completed,
\* also when a second one started while the first was still running, the
\* stored history is exactly one (user message, final answer) pair per
\* non-blank submission, in submission order, with no typing placeholder left.
C17_HistoryOnePairPerSubmission ==
    (\A i \in 1..Len(subs) : subs[i].pc = "finished")
        => state = CompletedPairs(subs)

====
